---- MODULE Spec2Model ----
(***************************************************************************)
(* Model of the course generator single-page application: the App          *)
(* component's state (useState hooks), its handlers, the two asynchronous  *)
(* model calls (course generation, per-question explanation) and the       *)
(* timer chain of the progressive reveal.                                  *)
(*                                                                         *)
(* A handler runs to its first await (or to its end) in one step; the     *)
(* continuation after an await runs in a later step, with the values its   *)
(* closure captured when the handler was called.  State updates made in    *)
(* one step are applied together (React batches them), and every handler   *)
(* call sees the state of the latest render.                               *)
(***************************************************************************)
EXTENDS Integers, Sequences, FiniteSets, TLC

\* ---------------------------------------------------------------- bounds
MaxUserActions == 4   \* handler calls made by the user in one run
MaxQuiz == 2          \* longest quiz the service returns
MaxFeedbackActions == 4   \* FeedbackSection handler calls in one run
MaxLessonIndex == 0   \* highest lesson index with a feedback section
MaxPieces == 2        \* pieces of markdown in the text of a course field
MaxInstallEvents == 2 \* beforeinstallprompt events the platform fires
MaxGetAppClicks == 3  \* clicks on the get-app button in one run

\* ------------------------------------------------------------- JS values
NULL  == "null"
UNDEF == "undefined"
JTrue  == "true"
JFalse == "false"

\* values of quizExplanations: null, undefined (array hole) or a string,
\* a string being a sequence of tokens
JNull   == [k |-> "null"]
JUndef  == [k |-> "undefined"]
JStr(s) == [k |-> "string", s |-> s]

Languages == {"so", "en"}

\* translations[language]: the message table of ./interfaces
translations ==
  [l \in Languages |->
     [generatingError    |-> IF l = "so" THEN "so.generatingError" ELSE "en.generatingError",
      loadingExplanation |-> IF l = "so" THEN "so.loadingExplanation" ELSE "en.loadingExplanation",
      failedExplanation  |-> IF l = "so" THEN "so.failedExplanation" ELSE "en.failedExplanation"]]

\* courseLevels[language][i].topic
Topics == {"AI Fundamentals for beginners"}

\* a faulty variant of languageName: English whatever the language
languageName_alwaysEnglish(l) == "English"

\* const languageName = language === 'so' ? 'Somali' : 'English'
languageName(l) == IF l = "so" THEN "Somali" ELSE "English"

\* const prompt = `...`: the pieces of the template literal in their order,
\* the two interpolations of languageName and the one of topic in place
Prompt(topic, name) ==
  << "You are an expert instructional designer for a corporate training platform. Based on the topic \"",
     topic,
     "\", generate a comprehensive learning course. The course content should be ",
     "in the ", name, " language",
     ". For each lesson, provide a brief one-sentence summary. The \"Knowledge Check\" section should include a mix of multiple-choice and true/false questions. The output must be a single, valid JSON object that strictly adheres to the provided schema. Do not include any text, markdown formatting, or code block syntax before or after the JSON object. All generated text in the JSON response (titles, outlines, lessons, summaries, quizzes) MUST be ",
     "in the ", name, " language",
     "." >>

\* contents: prompt, for the generation request r
RequestPrompt(r) == Prompt(r.topic, r.languageName)

\* ------------------------------------------------------------ JS arrays
\* a faulty variant of NewArrayFill: one element short
NewArrayFill_oneShort(n, v) == [i \in 1..(n - 1) |-> v]

\* new Array(n).fill(v)
NewArrayFill(n, v) == [i \in 1..n |-> v]

\* arr[i] with i one-based; reading past the end gives undefined
ArrGet(arr, i, undef) == IF i \in 1..Len(arr) THEN arr[i] ELSE undef

\* const a = [...arr]; a[i] = v   (an assignment past the end lengthens the
\* array and leaves holes, which read as undefined)
ArrSet(arr, i, v, undef) ==
  IF i \in 1..Len(arr)
    THEN [arr EXCEPT ![i] = v]
    ELSE arr \o [j \in 1..(i - Len(arr) - 1) |-> undef] \o <<v>>

\* String.prototype.trim on a sequence of tokens
IsSpace(c) == c \in {" ", "\n", "\t"}
RECURSIVE TrimStart(_)
TrimStart(s) ==
  IF s = <<>> THEN s
  ELSE IF IsSpace(Head(s)) THEN TrimStart(Tail(s)) ELSE s
RECURSIVE TrimEnd(_)
TrimEnd(s) ==
  IF s = <<>> THEN s
  ELSE IF IsSpace(s[Len(s)]) THEN TrimEnd(SubSeq(s, 1, Len(s) - 1)) ELSE s
Trim(s) == TrimEnd(TrimStart(s))

\* ------------------------------------------------- the generation service
QuizOptions == <<"a", "b">>

QuizItem(ca) == [question |-> "q", options |-> QuizOptions, correctAnswer |-> ca]

\* the objects the service returns: the response schema makes the six fields
\* required and types them, and says nothing of how lessonSummaries relates
\* to lessons or correctAnswer to options
ResponseShapes == {"aligned", "fewSummaries", "strayAnswer"}

\* JSON.parse(jsonText) when the text is an object with a quiz array of n items
ParsedCourse(id, n, shape) ==
  [k |-> "course", id |-> id, title |-> "T",
   lessons |-> <<"lesson 1", "lesson 2">>,
   lessonSummaries |-> IF shape = "fewSummaries" THEN <<"summary 1">>
                       ELSE <<"summary 1", "summary 2">>,
   quiz |-> [i \in 1..n |-> QuizItem(IF shape = "strayAnswer" THEN "c" ELSE "a")]]

\* JSON.parse(jsonText) when the text is an object without a quiz array
PartialCourse(id) == [k |-> "partial", id |-> id, title |-> "T"]

NoCourse == [k |-> "null"]

\* explanationResponse.text
ExplanationTexts == { <<"w">>, <<" ", "w", "\n">> }

\* -------------------------------------------------------------- state
VARIABLES
  isGeneratingCourse, error, course, language,
  quizAnswers, quizFeedback, quizExplanations, explanationLoading,
  loadingOutline, loadingLessons, loadingSummary, loadingQuiz,
  genRequests,     \* generateContent calls of handleGenerateCourse in flight
  explRequests,    \* generateContent calls of handleAnswerSelection in flight
  timers,          \* pending setTimeout callbacks of the reveal chain, FIFO
  genCount,        \* generation requests started so far
  userActions,     \* topic clicks, language changes and option clicks so far
  langChangeAt,    \* history: genCount at the latest language change
  resetPending,    \* history: a generation started or failed, none succeeded since
  quiet,           \* history: a generation succeeded, no user action since
  lastOp,          \* history: the handler or continuation that ran last
  serviceShapes    \* the shapes of course object the service answers with

\* one FeedbackSection instance and the localStorage it reads and writes
VARIABLES
  localStorage,    \* key -> stored text, or null
  fbMounted,       \* the instance is mounted
  fbProps,         \* its props: type, courseTitle, lessonIndex
  rating, comment, submitted, showThankYou,
  thankYouTimers,  \* pending setTimeout(() => setShowThankYou(false), 3000)
  fbActions,       \* star clicks, comment edits, submit and edit clicks so far
  lastSaved,       \* history: key -> the {rating, comment} last submitted, or null
  fbLast           \* history: the FeedbackSection step that ran last

\* the download dialog of CourseDisplay and the course it exports
VARIABLES
  exportCourse,        \* the course prop
  showDownloadConfirm,
  downloadFormat,
  downloaded           \* the file initiateDownload created last, or null

\* the install prompt held by App and the get-app button of CourseDisplay
VARIABLES
  deferredPrompt,      \* the stashed beforeinstallprompt event, or null
  isAppInstalled,
  showAppDownloadQR,
  promptCalls,         \* per event fired so far: the prompt() calls made on it
  choiceAwaited,       \* per event: the handleInstallApp calls at `await userChoice`
  getAppClicks,        \* clicks on the get-app button so far
  pwaLast              \* history: the latest install event or call

appVars  == <<isGeneratingCourse, error, course, language>>
quizVars == <<quizAnswers, quizFeedback, quizExplanations, explanationLoading>>
flagVars == <<loadingOutline, loadingLessons, loadingSummary, loadingQuiz>>
netVars  == <<genRequests, explRequests, timers, genCount, userActions>>
histVars == <<langChangeAt, resetPending, quiet, lastOp>>
\* what no handler of App writes
fbVars   == <<localStorage, fbMounted, fbProps, rating, comment, submitted,
              showThankYou, thankYouTimers, fbActions, lastSaved, fbLast>>
exVars   == <<exportCourse, showDownloadConfirm, downloadFormat, downloaded>>
pwaVars  == <<deferredPrompt, isAppInstalled, showAppDownloadQR, promptCalls,
              choiceAwaited, getAppClicks, pwaLast>>
restVars == <<serviceShapes, fbVars, exVars, pwaVars>>
appAll   == <<appVars, quizVars, flagVars, netVars, histVars, serviceShapes, exVars,
              pwaVars>>
vars     == <<appVars, quizVars, flagVars, netVars, histVars, restVars>>

\* the record of a call: the handler, its question, whether its guard let it
\* pass, how it ended, and what held when it was called (a course existed;
\* question q had an answer and the failed-explanation message)
Op(name, q, guard, outcome) ==
  [op |-> name, q |-> q, arg |-> "", guard |-> guard, outcome |-> outcome,
   hadCourse |-> course.k # "null",
   hadFailed |-> /\ ArrGet(quizAnswers, q, UNDEF) \notin {NULL, UNDEF}
                 /\ ArrGet(quizExplanations, q, JUndef) \in
                      {JStr(<<translations[l].failedExplanation>>) : l \in Languages}]

\* a call of a handler by the user
UserAction == userActions < MaxUserActions /\ userActions' = userActions + 1

\* the state of App after its first render
AppInit ==
  /\ isGeneratingCourse = FALSE
  /\ error = NULL
  /\ course = NoCourse
  /\ language = "so"
  /\ quizAnswers = <<>>
  /\ quizFeedback = <<>>
  /\ quizExplanations = <<>>
  /\ explanationLoading = <<>>
  /\ loadingOutline = FALSE
  /\ loadingLessons = FALSE
  /\ loadingSummary = FALSE
  /\ loadingQuiz = FALSE
  /\ genRequests = {}
  /\ explRequests = {}
  /\ timers = <<>>
  /\ genCount = 0
  /\ userActions = 0
  /\ langChangeAt = 0
  /\ resetPending = FALSE
  /\ quiet = FALSE
  /\ lastOp = [op |-> "init", q |-> 0, arg |-> "", guard |-> TRUE, outcome |-> "",
               hadCourse |-> FALSE, hadFailed |-> FALSE]

\* ------------------------------------------------- handleGenerateCourse
\* the handler up to `await ai.models.generateContent(...)`
handleGenerateCourse(topic) ==
  /\ UNCHANGED restVars
  /\ UserAction
  /\ lastOp' = Op("handleGenerateCourse", 0, ~isGeneratingCourse, "")
  /\ quiet' = FALSE
  /\ UNCHANGED <<language, explRequests, timers, langChangeAt>>
  /\ IF isGeneratingCourse
       THEN \* if (isGeneratingCourse) return;
            UNCHANGED <<isGeneratingCourse, error, course, quizVars, flagVars,
                        genRequests, genCount, resetPending>>
       ELSE /\ isGeneratingCourse' = TRUE
            /\ error' = NULL
            /\ course' = NoCourse
            /\ quizAnswers' = <<>>
            /\ quizFeedback' = <<>>
            /\ quizExplanations' = <<>>
            /\ explanationLoading' = <<>>
            /\ loadingOutline' = FALSE
            /\ loadingLessons' = FALSE
            /\ loadingSummary' = FALSE
            /\ loadingQuiz' = FALSE
            /\ genCount' = genCount + 1
            /\ genRequests' = genRequests \cup
                 {[id |-> genCount + 1, topic |-> topic,
                   languageName |-> languageName(language), t |-> language]}
            /\ resetPending' = TRUE

\* a faulty variant of GenerateCatch: isGeneratingCourse is left as it is
GenerateCatch_keepsGenerating(r) ==
  /\ error' = translations[r.t].generatingError
  /\ UNCHANGED isGeneratingCourse
  /\ loadingOutline' = FALSE
  /\ loadingLessons' = FALSE
  /\ loadingSummary' = FALSE
  /\ loadingQuiz' = FALSE

\* the catch block: setError(t.generatingError) and the resets
GenerateCatch(r) ==
  /\ error' = translations[r.t].generatingError
  /\ isGeneratingCourse' = FALSE
  /\ loadingOutline' = FALSE
  /\ loadingLessons' = FALSE
  /\ loadingSummary' = FALSE
  /\ loadingQuiz' = FALSE

\* the request resolves with text that parses to a course with n quiz items
GenerateResolved(r, n, shape) ==
  /\ UNCHANGED restVars
  /\ r \in genRequests
  /\ n \in 1..MaxQuiz
  /\ shape \in serviceShapes
  /\ genRequests' = genRequests \ {r}
  /\ course' = ParsedCourse(r.id, n, shape)
  /\ quizAnswers' = NewArrayFill(n, NULL)
  /\ quizFeedback' = NewArrayFill(n, NULL)
  /\ quizExplanations' = NewArrayFill(n, JNull)
  /\ explanationLoading' = NewArrayFill(n, JFalse)
  /\ isGeneratingCourse' = FALSE
  /\ loadingOutline' = TRUE
  /\ timers' = Append(timers, 1)
  /\ resetPending' = FALSE
  /\ quiet' = TRUE
  /\ lastOp' = Op("GenerateResolved", 0, TRUE, "ok")
  /\ UNCHANGED <<error, language, loadingLessons, loadingSummary, loadingQuiz,
                 explRequests, genCount, userActions, langChangeAt>>

\* a faulty variant of GenerateRejected: the request is sent again
GenerateRejected_retries(r, outcome) ==
  /\ UNCHANGED restVars
  /\ r \in genRequests
  /\ outcome \in {"reject", "badjson"}
  /\ genRequests' = (genRequests \ {r}) \cup {[r EXCEPT !.id = genCount + 1]}
  /\ genCount' = genCount + 1
  /\ genCount < MaxUserActions
  /\ GenerateCatch(r)
  /\ resetPending' = TRUE
  /\ lastOp' = Op("GenerateRejected", 0, TRUE, outcome)
  /\ UNCHANGED <<course, language, quizVars, explRequests, timers,
                 userActions, langChangeAt, quiet>>

\* the request rejects, or response.text is not JSON: nothing of the try
\* block after the await has run when the catch block is entered
GenerateRejected(r, outcome) ==
  /\ UNCHANGED restVars
  /\ r \in genRequests
  /\ outcome \in {"reject", "badjson"}
  /\ genRequests' = genRequests \ {r}
  /\ GenerateCatch(r)
  /\ resetPending' = TRUE
  /\ lastOp' = Op("GenerateRejected", 0, TRUE, outcome)
  /\ UNCHANGED <<course, language, quizVars, explRequests, timers, genCount,
                 userActions, langChangeAt, quiet>>

\* the text parses, setCourse(parsedCourse) runs, and parsedCourse.quiz.length
\* throws: the object has no quiz ("noquiz") or the text was `null` ("jsonnull")
GenerateUnusable(r, outcome) ==
  /\ UNCHANGED restVars
  /\ r \in genRequests
  /\ outcome \in {"noquiz", "jsonnull"}
  /\ genRequests' = genRequests \ {r}
  /\ course' = IF outcome = "noquiz" THEN PartialCourse(r.id) ELSE NoCourse
  /\ GenerateCatch(r)
  /\ resetPending' = TRUE
  /\ lastOp' = Op("GenerateUnusable", 0, TRUE, outcome)
  /\ UNCHANGED <<language, quizVars, explRequests, timers, genCount,
                 userActions, langChangeAt, quiet>>

\* a faulty variant of RevealTimer: the last callback leaves loadingQuiz set
RevealTimer_quizStaysLoading ==
  /\ UNCHANGED restVars
  /\ timers # <<>>
  /\ LET stage == Head(timers) IN
       /\ loadingOutline' = IF stage = 1 THEN FALSE ELSE loadingOutline
       /\ loadingLessons' = IF stage = 1 THEN TRUE
                            ELSE IF stage = 2 THEN FALSE ELSE loadingLessons
       /\ loadingSummary' = IF stage = 2 THEN TRUE
                            ELSE IF stage = 3 THEN FALSE ELSE loadingSummary
       /\ loadingQuiz'    = IF stage = 3 THEN TRUE ELSE loadingQuiz
       /\ timers' = IF stage < 4 THEN Append(Tail(timers), stage + 1)
                                 ELSE Tail(timers)
       /\ lastOp' = Op("RevealTimer", stage, TRUE, "")
  /\ UNCHANGED <<appVars, quizVars, genRequests, explRequests, genCount,
                 userActions, langChangeAt, resetPending, quiet>>

\* a callback of the setTimeout chain; callbacks of equal delay run in the
\* order in which they were scheduled
RevealTimer ==
  /\ UNCHANGED restVars
  /\ timers # <<>>
  /\ LET stage == Head(timers) IN
       /\ loadingOutline' = IF stage = 1 THEN FALSE ELSE loadingOutline
       /\ loadingLessons' = IF stage = 1 THEN TRUE
                            ELSE IF stage = 2 THEN FALSE ELSE loadingLessons
       /\ loadingSummary' = IF stage = 2 THEN TRUE
                            ELSE IF stage = 3 THEN FALSE ELSE loadingSummary
       /\ loadingQuiz'    = IF stage = 3 THEN TRUE
                            ELSE IF stage = 4 THEN FALSE ELSE loadingQuiz
       /\ timers' = IF stage < 4 THEN Append(Tail(timers), stage + 1)
                                 ELSE Tail(timers)
       /\ lastOp' = Op("RevealTimer", stage, TRUE, "")
  /\ UNCHANGED <<appVars, quizVars, genRequests, explRequests, genCount,
                 userActions, langChangeAt, resetPending, quiet>>

\* ------------------------------------------------- handleLanguageChange
\* a faulty variant of handleLanguageChange: the explanation state is kept and the
\* generation status is not cleared
handleLanguageChange_keepsState(value) ==
  /\ UNCHANGED restVars
  /\ UserAction
  /\ value \in Languages \ {language}
  /\ language' = value
  /\ course' = NoCourse
  /\ quizAnswers' = <<>>
  /\ quizFeedback' = <<>>
  /\ loadingOutline' = FALSE
  /\ loadingLessons' = FALSE
  /\ loadingSummary' = FALSE
  /\ loadingQuiz' = FALSE
  /\ langChangeAt' = genCount
  /\ quiet' = FALSE
  /\ lastOp' = Op("handleLanguageChange", 0, TRUE, "")
  /\ UNCHANGED <<error, isGeneratingCourse, quizExplanations, explanationLoading,
                 genRequests, explRequests, timers, genCount, resetPending>>

handleLanguageChange(value) ==
  /\ UNCHANGED restVars
  /\ UserAction
  /\ value \in Languages \ {language}
  /\ language' = value
  /\ course' = NoCourse
  /\ quizAnswers' = <<>>
  /\ quizFeedback' = <<>>
  /\ quizExplanations' = <<>>
  /\ explanationLoading' = <<>>
  /\ loadingOutline' = FALSE
  /\ loadingLessons' = FALSE
  /\ loadingSummary' = FALSE
  /\ loadingQuiz' = FALSE
  /\ isGeneratingCourse' = FALSE
  /\ langChangeAt' = genCount
  /\ quiet' = FALSE
  /\ lastOp' = Op("handleLanguageChange", 0, TRUE, "")
  /\ UNCHANGED <<error, genRequests, explRequests, timers, genCount, resetPending>>

\* ------------------------------------------------ handleAnswerSelection
\* a faulty variant of AnsweredOrLoading: only the loading flag is looked at
AnsweredOrLoading_onlyLoading(q) ==
  ArrGet(explanationLoading, q, UNDEF) = JTrue

\* if (quizAnswers[qIndex] !== null || explanationLoading[qIndex]) return;
AnsweredOrLoading(q) ==
  \/ ArrGet(quizAnswers, q, UNDEF) # NULL
  \/ ArrGet(explanationLoading, q, UNDEF) = JTrue

\* the quiz option buttons exist while a course with a quiz is displayed and
\* the quiz section is not on its loader
QuizRendered == course.k = "course" /\ ~loadingQuiz

\* the handler up to `await ai.models.generateContent(...)`, or to its end
\* when the guard returns or the option is the correct answer
\* a faulty variant of IsCorrectAnswer: every option counts as the correct one
IsCorrectAnswer_always(q, option) ==
  option \in {course.quiz[q].options[i] : i \in 1..Len(course.quiz[q].options)}

\* option === course?.quiz[qIndex].correctAnswer
IsCorrectAnswer(q, option) ==
  option = course.quiz[q].correctAnswer

handleAnswerSelection(q, option) ==
  /\ UNCHANGED restVars
  /\ UserAction
  /\ QuizRendered
  /\ q \in 1..Len(course.quiz)
  /\ option \in {course.quiz[q].options[i] : i \in 1..Len(course.quiz[q].options)}
  /\ lastOp' = [Op("handleAnswerSelection", q, ~AnsweredOrLoading(q),
                   IF IsCorrectAnswer(q, option) THEN "correct" ELSE "incorrect")
                  EXCEPT !.arg = option]
  /\ quiet' = FALSE
  /\ UNCHANGED <<appVars, flagVars, genRequests, timers, genCount,
                 langChangeAt, resetPending>>
  /\ IF AnsweredOrLoading(q)
       THEN UNCHANGED <<quizVars, explRequests>>
       ELSE LET newAnswers  == ArrSet(quizAnswers, q, option, UNDEF)
                isCorrect   == IsCorrectAnswer(q, option)
                newFeedback == ArrSet(quizFeedback, q,
                                 IF isCorrect THEN "correct" ELSE "incorrect", UNDEF)
                newExplanationLoading == ArrSet(explanationLoading, q, JTrue, UNDEF)
                newExplanations ==
                  ArrSet(quizExplanations, q,
                         JStr(<<translations[language].loadingExplanation>>), JUndef)
            IN  /\ quizAnswers' = newAnswers
                /\ quizFeedback' = newFeedback
                /\ IF isCorrect
                     THEN UNCHANGED <<quizExplanations, explanationLoading, explRequests>>
                     ELSE /\ explanationLoading' = newExplanationLoading
                          /\ quizExplanations' = newExplanations
                          /\ explRequests' = explRequests \cup
                               {[q |-> q, courseId |-> course.id,
                                 selectedAnswer |-> option,
                                 languageName |-> languageName(language),
                                 t |-> language,
                                 newExplanations |-> newExplanations,
                                 explanationLoading |-> explanationLoading]}

\* finally { const newExplanationLoading = [...explanationLoading]; ... }
\* with the explanationLoading of the render in which the option was clicked
ExplanationFinally(r) ==
  explanationLoading' = ArrSet(r.explanationLoading, r.q, JFalse, UNDEF)

\* the explanation request resolves with text
ExplanationResolved(r, text) ==
  /\ UNCHANGED restVars
  /\ r \in explRequests
  /\ text \in ExplanationTexts
  /\ explRequests' = explRequests \ {r}
  /\ quizExplanations' = ArrSet(r.newExplanations, r.q, JStr(Trim(text)), JUndef)
  /\ ExplanationFinally(r)
  /\ lastOp' = Op("ExplanationResolved", r.q, TRUE, "ok")
  /\ UNCHANGED <<appVars, flagVars, quizAnswers, quizFeedback, genRequests,
                 timers, genCount, userActions, langChangeAt, resetPending, quiet>>

\* a faulty variant of ExplanationRejected: the answer is cleared so that the
\* question can be tried again
ExplanationRejected_clearsAnswer(r) ==
  /\ UNCHANGED restVars
  /\ r \in explRequests
  /\ explRequests' = explRequests \ {r}
  /\ quizExplanations' =
       ArrSet(r.newExplanations, r.q,
              JStr(<<translations[r.t].failedExplanation>>), JUndef)
  /\ ExplanationFinally(r)
  /\ quizAnswers' = [i \in 1..Len(quizAnswers) |->
                       IF i = r.q THEN NULL ELSE quizAnswers[i]]
  /\ lastOp' = Op("ExplanationRejected", r.q, TRUE, "reject")
  /\ UNCHANGED <<appVars, flagVars, quizFeedback, genRequests,
                 timers, genCount, userActions, langChangeAt, resetPending, quiet>>

\* the explanation request rejects (or has no text)
ExplanationRejected(r) ==
  /\ UNCHANGED restVars
  /\ r \in explRequests
  /\ explRequests' = explRequests \ {r}
  /\ quizExplanations' =
       ArrSet(r.newExplanations, r.q,
              JStr(<<translations[r.t].failedExplanation>>), JUndef)
  /\ ExplanationFinally(r)
  /\ lastOp' = Op("ExplanationRejected", r.q, TRUE, "reject")
  /\ UNCHANGED <<appVars, flagVars, quizAnswers, quizFeedback, genRequests,
                 timers, genCount, userActions, langChangeAt, resetPending, quiet>>

\* ------------------------------------------------------ FeedbackSection
\* JSON.stringify of a string: the characters that need an escape
RECURSIVE JsonEscape(_)
JsonEscape(str) ==
  IF str = <<>> THEN <<>>
  ELSE LET c == Head(str) IN
       (IF c = "\"" THEN <<"\\", "\"">>
        ELSE IF c = "\\" THEN <<"\\", "\\">>
        ELSE IF c = "\n" THEN <<"\\", "n">>
        ELSE <<c>>) \o JsonEscape(Tail(str))

Digits == <<"0", "1", "2", "3", "4", "5", "6", "7", "8", "9">>

\* a non-negative integer in decimal
RECURSIVE NumToChars(_)
NumToChars(n) ==
  IF n < 10 THEN <<Digits[n + 1]>>
  ELSE NumToChars(n \div 10) \o <<Digits[(n % 10) + 1]>>

JsonRatingPrefix  == <<"{", "\"", "r", "a", "t", "i", "n", "g", "\"", ":">>
JsonCommentPrefix == <<",", "\"", "c", "o", "m", "m", "e", "n", "t", "\"", ":", "\"">>

\* a faulty variant of JsonStringify: the comment is written unescaped
JsonStringify_unescaped(r, c) ==
  JsonRatingPrefix \o NumToChars(r) \o JsonCommentPrefix \o c \o <<"\"", "}">>

\* JSON.stringify({ rating, comment })
JsonStringify(r, c) ==
  JsonRatingPrefix \o NumToChars(r) \o JsonCommentPrefix \o JsonEscape(c)
    \o <<"\"", "}">>

JsonFail == [ok |-> FALSE, rating |-> 0, comment |-> <<>>, rest |-> <<>>]

\* the digits at the start of text, as a number
RECURSIVE JsonReadNumber(_, _, _)
JsonReadNumber(text, n, seen) ==
  IF text # <<>> /\ \E d \in 1..10 : Digits[d] = Head(text)
    THEN JsonReadNumber(Tail(text),
                        10 * n + ((CHOOSE d \in 1..10 : Digits[d] = Head(text)) - 1),
                        TRUE)
    ELSE [ok |-> seen, rating |-> n, comment |-> <<>>, rest |-> text]

\* the characters of a JSON string up to its closing quote, escapes undone
RECURSIVE JsonReadString(_, _)
JsonReadString(text, acc) ==
  IF text = <<>> \/ Head(text) = "\n" THEN JsonFail
  ELSE IF Head(text) = "\"" THEN
    [ok |-> TRUE, rating |-> 0, comment |-> acc, rest |-> Tail(text)]
  ELSE IF Head(text) = "\\" THEN
    IF Len(text) < 2 THEN JsonFail
    ELSE IF text[2] \in {"\"", "\\"} THEN
      JsonReadString(SubSeq(text, 3, Len(text)), Append(acc, text[2]))
    ELSE IF text[2] = "n" THEN
      JsonReadString(SubSeq(text, 3, Len(text)), Append(acc, "\n"))
    ELSE JsonFail
  ELSE JsonReadString(Tail(text), Append(acc, Head(text)))

\* const { rating, comment } = JSON.parse(storedFeedback), for the texts
\* handleSubmit writes; ok is false when JSON.parse throws
JsonParse(text) ==
  LET n1 == Len(JsonRatingPrefix)
      n2 == Len(JsonCommentPrefix)
  IN
  IF Len(text) < n1 \/ SubSeq(text, 1, n1) # JsonRatingPrefix THEN JsonFail
  ELSE LET num == JsonReadNumber(SubSeq(text, n1 + 1, Len(text)), 0, FALSE) IN
    IF ~num.ok \/ Len(num.rest) < n2 \/ SubSeq(num.rest, 1, n2) # JsonCommentPrefix
      THEN JsonFail
    ELSE LET str == JsonReadString(SubSeq(num.rest, n2 + 1, Len(num.rest)), <<>>) IN
      IF ~str.ok \/ str.rest # <<"}">> THEN JsonFail
      ELSE [ok |-> TRUE, rating |-> num.rating, comment |-> str.comment,
            rest |-> <<>>]

CourseKeyPrefix ==
  <<"g", "e", "e", "d", "d", "i", "-", "c", "o", "u", "r", "s", "e", "-",
    "f", "e", "e", "d", "b", "a", "c", "k", "-">>
LessonKeyPrefix ==
  <<"g", "e", "e", "d", "d", "i", "-", "l", "e", "s", "s", "o", "n", "-",
    "f", "e", "e", "d", "b", "a", "c", "k", "-">>

\* a faulty variant of localStorageKey: one prefix for both types
localStorageKey_noScope(props) ==
  IF props.type = "course"
    THEN LessonKeyPrefix \o props.courseTitle
    ELSE LessonKeyPrefix \o props.courseTitle \o <<"-">>
           \o NumToChars(props.lessonIndex)

\* const localStorageKey = type === 'course' ? ... : ...
localStorageKey(props) ==
  IF props.type = "course"
    THEN CourseKeyPrefix \o props.courseTitle
    ELSE LessonKeyPrefix \o props.courseTitle \o <<"-">>
           \o NumToChars(props.lessonIndex)

\* course titles, star numbers and comment texts
Titles   == { <<"T">>, <<"T", "-", "0">> }
Stars    == {1, 2, 3, 4, 5}
Comments == { <<>>, <<"a", "\"", "\\">> }

\* the feedback sections CourseDisplay renders: one for the course and one in
\* each lesson
FeedbackProps ==
  {[type |-> "course", courseTitle |-> t, lessonIndex |-> 0] : t \in Titles}
    \cup {[type |-> "lesson", courseTitle |-> t, lessonIndex |-> i] :
            t \in Titles, i \in 0..MaxLessonIndex}

NoRecord == [k |-> "null"]
Record(r, c) == [k |-> "record", rating |-> r, comment |-> c]

\* history after a submission under key: what was submitted, and by which section
Remember(key, props, r, c) ==
  [x \in DOMAIN lastSaved \cup {key} |->
     IF x = key THEN [k |-> "record", rating |-> r, comment |-> c, by |-> props]
     ELSE lastSaved[x]]

\* localStorage.getItem(key): null when nothing is stored under key
getItem(key) == IF key \in DOMAIN localStorage THEN localStorage[key] ELSE JNull

\* a faulty variant of setItem: the value is appended to the one stored before
setItem_appends(store, key, value) ==
  [x \in DOMAIN store \cup {key} |->
     IF x # key THEN store[x]
     ELSE IF key \in DOMAIN store THEN JStr(store[key].s \o value.s) ELSE value]

\* store after setItem(key, value)
setItem(store, key, value) ==
  [x \in DOMAIN store \cup {key} |-> IF x = key THEN value ELSE store[x]]

\* the record submitted last under key
Saved(key) == IF key \in DOMAIN lastSaved THEN lastSaved[key] ELSE NoRecord

FbOp(name) ==
  [op |-> name, rating |-> rating, comment |-> comment, submitted |-> submitted,
   showThankYou |-> showThankYou, mounted |-> fbMounted]

FeedbackInit ==
  /\ localStorage = [key \in {} |-> JNull]
  /\ fbMounted = FALSE
  /\ fbProps = [type |-> "course", courseTitle |-> <<"T">>, lessonIndex |-> 0]
  /\ rating = 0
  /\ comment = <<>>
  /\ submitted = FALSE
  /\ showThankYou = FALSE
  /\ thankYouTimers = 0
  /\ fbActions = 0
  /\ lastSaved = [key \in {} |-> NoRecord]
  /\ fbLast = [op |-> "init", rating |-> 0, comment |-> <<>>, submitted |-> FALSE,
               showThankYou |-> FALSE, mounted |-> FALSE]

\* a call of a FeedbackSection handler by the user
FeedbackAction ==
  fbActions < MaxFeedbackActions /\ fbActions' = fbActions + 1

\* the effect of lines 40-48, run for the key of props with the state r, c, s
\* of the render it follows
LoadEffect(props, r, c, s) ==
  LET storedFeedback == getItem(localStorageKey(props))
      parsed == JsonParse(storedFeedback.s)
  IN  IF storedFeedback # JNull /\ storedFeedback.s # <<>> /\ parsed.ok
        THEN /\ rating' = parsed.rating
             /\ comment' = parsed.comment
             /\ submitted' = TRUE
        ELSE \* nothing stored (or JSON.parse threw): no setter is called
             /\ rating' = r
             /\ comment' = c
             /\ submitted' = s

\* the section is mounted: useState initial values, then the effect
FeedbackMount(props) ==
  /\ ~fbMounted
  /\ props \in FeedbackProps
  /\ fbMounted' = TRUE
  /\ fbProps' = props
  /\ LoadEffect(props, 0, <<>>, FALSE)
  /\ showThankYou' = FALSE
  /\ fbLast' = FbOp("mount")
  /\ UNCHANGED <<localStorage, thankYouTimers, fbActions, lastSaved>>
  /\ UNCHANGED appAll

\* the section is rendered again for another course while it stays mounted
\* (a course replaces the displayed one): the key changes, the effect runs
FeedbackKeyChange(title) ==
  /\ fbMounted
  /\ title \in Titles \ {fbProps.courseTitle}
  /\ fbProps' = [fbProps EXCEPT !.courseTitle = title]
  /\ LoadEffect(fbProps', rating, comment, submitted)
  /\ fbLast' = FbOp("keyChange")
  /\ UNCHANGED <<localStorage, fbMounted, showThankYou, thankYouTimers,
                 fbActions, lastSaved>>
  /\ UNCHANGED appAll

\* the section is unmounted; its state is gone and its timers find no one
FeedbackUnmount ==
  /\ fbMounted
  /\ fbMounted' = FALSE
  /\ rating' = 0
  /\ comment' = <<>>
  /\ submitted' = FALSE
  /\ showThankYou' = FALSE
  /\ thankYouTimers' = 0
  /\ fbLast' = FbOp("unmount")
  /\ UNCHANGED <<localStorage, fbProps, fbActions, lastSaved>>
  /\ UNCHANGED appAll

\* onClick={() => setRating(starNum)}
StarClick(starNum) ==
  /\ FeedbackAction
  /\ fbMounted /\ ~submitted
  /\ starNum \in Stars
  /\ rating' = starNum
  /\ fbLast' = FbOp("setRating")
  /\ UNCHANGED <<localStorage, fbMounted, fbProps, comment, submitted,
                 showThankYou, thankYouTimers, lastSaved>>
  /\ UNCHANGED appAll

\* onChange={(e) => setComment(e.target.value)}
CommentChange(value) ==
  /\ FeedbackAction
  /\ fbMounted /\ ~submitted
  /\ value \in Comments \ {comment}
  /\ comment' = value
  /\ fbLast' = FbOp("setComment")
  /\ UNCHANGED <<localStorage, fbMounted, fbProps, rating, submitted,
                 showThankYou, thankYouTimers, lastSaved>>
  /\ UNCHANGED appAll

\* a faulty variant of handleSubmit: no guard on the rating
handleSubmit_noGuard ==
  /\ FeedbackAction
  /\ fbMounted /\ ~submitted
  /\ fbLast' = FbOp("handleSubmit")
  /\ UNCHANGED <<fbMounted, fbProps, rating, comment>>
  /\ UNCHANGED appAll
  /\ localStorage' = setItem(localStorage, localStorageKey(fbProps),
                               JStr(JsonStringify(rating, comment)))
  /\ lastSaved' = Remember(localStorageKey(fbProps), fbProps, rating, comment)
  /\ submitted' = TRUE
  /\ showThankYou' = TRUE
  /\ thankYouTimers' = thankYouTimers + 1

handleSubmit ==
  /\ FeedbackAction
  /\ fbMounted /\ ~submitted
  /\ fbLast' = FbOp("handleSubmit")
  /\ UNCHANGED <<fbMounted, fbProps, rating, comment>>
  /\ UNCHANGED appAll
  /\ IF rating = 0
       THEN \* if (rating === 0) return;
            UNCHANGED <<localStorage, lastSaved, submitted, showThankYou,
                        thankYouTimers>>
       ELSE /\ localStorage' = setItem(localStorage, localStorageKey(fbProps),
                               JStr(JsonStringify(rating, comment)))
            /\ lastSaved' = Remember(localStorageKey(fbProps), fbProps, rating, comment)
            /\ submitted' = TRUE
            /\ showThankYou' = TRUE
            /\ thankYouTimers' = thankYouTimers + 1

\* a faulty variant of handleEdit: the stored record is removed
handleEdit_removesRecord ==
  /\ FeedbackAction
  /\ fbMounted /\ submitted
  /\ submitted' = FALSE
  /\ localStorage' = [x \in DOMAIN localStorage \ {localStorageKey(fbProps)} |->
                       localStorage[x]]
  /\ fbLast' = FbOp("handleEdit")
  /\ UNCHANGED <<fbMounted, fbProps, rating, comment, showThankYou,
                 thankYouTimers, lastSaved>>
  /\ UNCHANGED appAll

handleEdit ==
  /\ FeedbackAction
  /\ fbMounted /\ submitted
  /\ submitted' = FALSE
  /\ fbLast' = FbOp("handleEdit")
  /\ UNCHANGED <<localStorage, fbMounted, fbProps, rating, comment, showThankYou,
                 thankYouTimers, lastSaved>>
  /\ UNCHANGED appAll

\* setTimeout(() => setShowThankYou(false), 3000)
ThankYouTimer ==
  /\ thankYouTimers > 0
  /\ thankYouTimers' = thankYouTimers - 1
  /\ showThankYou' = FALSE
  /\ fbLast' = FbOp("thankYouTimer")
  /\ UNCHANGED <<localStorage, fbMounted, fbProps, rating, comment, submitted,
                 fbActions, lastSaved>>
  /\ UNCHANGED appAll

FeedbackNext ==
  \/ \E props \in FeedbackProps : FeedbackMount(props)
  \/ \E title \in Titles : FeedbackKeyChange(title)
  \/ FeedbackUnmount
  \/ \E starNum \in Stars : StarClick(starNum)
  \/ \E value \in Comments : CommentChange(value)
  \/ handleSubmit
  \/ handleEdit
  \/ ThankYouTimer

\* -------------------------------------------------- markdownToPlainText
\* the characters \s matches, and the digits \d matches
Spaces     == {" ", "\n", "\t"}
DigitChars == {Digits[d] : d \in 1..10}

Smallest(S) == CHOOSE x \in S : \A y \in S : x <= y
Largest(S)  == CHOOSE x \in S : \A y \in S : x >= y

\* `.` matches every character but a line terminator
NoNewline(text, from, to) == \A x \in from..to : text[x] # "\n"

\* ^ under the m flag: the start of the text or of a line
LineStart(text, i) == i = 1 \/ text[i - 1] = "\n"

\* the first position from i on that holds no character of S
RunEnd(text, i, S) ==
  Smallest({e \in i..(Len(text) + 1) : e = Len(text) + 1 \/ text[e] \notin S})

NoMatch == [ok |-> FALSE, out |-> <<>>, next |-> 0]
Matched(out, next) == [ok |-> TRUE, out |-> out, next |-> next]

\* /\[(.*?)\]\((.*?)\)/ tried at position i, replaced by $1
LinkMatch(text, i) ==
  LET n == Len(text)
      closes == {j \in (i + 1)..(n - 1) :
                   text[j] = "]" /\ text[j + 1] = "(" /\ NoNewline(text, i + 1, j - 1)}
      j == Smallest(closes)
      ends == {k \in (j + 2)..n : text[k] = ")" /\ NoNewline(text, j + 2, k - 1)}
  IN  IF i > n \/ text[i] # "[" \/ closes = {} THEN NoMatch
      ELSE IF ends = {} THEN NoMatch
      ELSE Matched(SubSeq(text, i + 1, j - 1), Smallest(ends) + 1)

\* /!\[(.*?)\]\((.*?)\)/ tried at position i, replaced by $1
ImageMatch(text, i) ==
  IF text[i] = "!" THEN LinkMatch(text, i + 1) ELSE NoMatch

\* /^#+\s/m tried at position i, replaced by ''
HeadingMatch(text, i) ==
  LET e == RunEnd(text, i, {"#"})
  IN  IF LineStart(text, i) /\ e > i /\ e <= Len(text) /\ text[e] \in Spaces
        THEN Matched(<<>>, e + 1)
        ELSE NoMatch

\* /(\*\*|__)(.*?)\1/ tried at position i, replaced by $2
BoldMatch(text, i) ==
  LET n == Len(text)
      closes == {j \in (i + 2)..(n - 1) :
                   /\ text[j] = text[i] /\ text[j + 1] = text[i]
                   /\ NoNewline(text, i + 2, j - 1)}
  IN  IF i < n /\ text[i] \in {"*", "_"} /\ text[i + 1] = text[i] /\ closes # {}
        THEN Matched(SubSeq(text, i + 2, Smallest(closes) - 1), Smallest(closes) + 2)
        ELSE NoMatch

\* /(^|\s)(\*|_)(.*?)\2(\s|$)/ tried at position i, replaced by $1$3$4
ItalicWordMatch(text, i) ==
  LET n == Len(text)
      \* group 1: empty at the start of the text, or one white-space character
      p == IF i = 1 /\ text[i] \notin Spaces THEN i ELSE i + 1
      closes == {j \in (p + 1)..n :
                   /\ text[j] = text[p]
                   /\ NoNewline(text, p + 1, j - 1)
                   /\ (j = n \/ text[j + 1] \in Spaces)}
      j == Smallest(closes)
  IN  IF /\ (i = 1 \/ text[i] \in Spaces)
         /\ p <= n /\ text[p] \in {"*", "_"}
         /\ closes # {}
        THEN Matched(SubSeq(text, i, p - 1) \o SubSeq(text, p + 1, j - 1)
                       \o (IF j < n THEN <<text[j + 1]>> ELSE <<>>),
                     IF j < n THEN j + 2 ELSE j + 1)
        ELSE NoMatch

\* /(\*|_)(.*?)\1/ tried at position i, replaced by $2
ItalicMatch(text, i) ==
  LET closes == {j \in (i + 1)..Len(text) :
                   text[j] = text[i] /\ NoNewline(text, i + 1, j - 1)}
  IN  IF text[i] \in {"*", "_"} /\ closes # {}
        THEN Matched(SubSeq(text, i + 1, Smallest(closes) - 1), Smallest(closes) + 1)
        ELSE NoMatch

\* /^(\s*[\*\-\+]|\s*\d+\.)\s+/m tried at position i, replaced by ''
ListMatch(text, i) ==
  LET n == Len(text)
      b == RunEnd(text, i, Spaces)
      d == RunEnd(text, b, DigitChars)
  IN  IF ~LineStart(text, i) THEN NoMatch
      ELSE IF b < n /\ text[b] \in {"*", "-", "+"} /\ text[b + 1] \in Spaces
        THEN Matched(<<>>, RunEnd(text, b + 1, Spaces))
      ELSE IF d > b /\ d < n /\ text[d] = "." /\ text[d + 1] \in Spaces
        THEN Matched(<<>>, RunEnd(text, d + 1, Spaces))
      ELSE NoMatch

\* /\n\s*\n/ tried at position i, replaced by '\n\n'
BlankLinesMatch(text, i) ==
  LET e == RunEnd(text, i + 1, Spaces)
      ends == {j \in (i + 1)..(e - 1) : text[j] = "\n"}
  IN  IF text[i] = "\n" /\ ends # {}
        THEN Matched(<<"\n", "\n">>, Largest(ends) + 1)
        ELSE NoMatch

MatchAt(pattern, text, i) ==
  CASE pattern = "link"       -> LinkMatch(text, i)
    [] pattern = "image"      -> ImageMatch(text, i)
    [] pattern = "heading"    -> HeadingMatch(text, i)
    [] pattern = "bold"       -> BoldMatch(text, i)
    [] pattern = "italicWord" -> ItalicWordMatch(text, i)
    [] pattern = "italic"     -> ItalicMatch(text, i)
    [] pattern = "list"       -> ListMatch(text, i)
    [] pattern = "blankLines" -> BlankLinesMatch(text, i)

\* text.replace(pattern, replacement) with the g flag, from position i on:
\* matches are taken left to right and do not overlap
RECURSIVE ReplaceFrom(_, _, _)
ReplaceFrom(pattern, text, i) ==
  IF i > Len(text) THEN <<>>
  ELSE LET m == MatchAt(pattern, text, i) IN
       IF m.ok THEN m.out \o ReplaceFrom(pattern, text, m.next)
       ELSE <<text[i]>> \o ReplaceFrom(pattern, text, i + 1)

Replace(pattern, text) == ReplaceFrom(pattern, text, 1)

markdownToPlainText(markdown) ==
  LET links      == Replace("link", markdown)
      images     == Replace("image", links)
      headings   == Replace("heading", images)
      bold       == Replace("bold", headings)
      italicWord == Replace("italicWord", bold)
      italic     == Replace("italic", italicWord)
      lists      == Replace("list", italic)
      blankLines == Replace("blankLines", lists)
  IN  Trim(blankLines)

\* ----------------------------------------------------- generateContent
\* t.<name>, the label of the selected language: one token of the content
Label(name) == <<name>>

RECURSIVE Join(_, _)
Join(items, sep) ==
  IF items = <<>> THEN <<>>
  ELSE IF Len(items) = 1 THEN items[1]
  ELSE items[1] \o sep \o Join(Tail(items), sep)

RECURSIVE Concat(_)
Concat(parts) == IF parts = <<>> THEN <<>> ELSE Head(parts) \o Concat(Tail(parts))

OptionsPrefix == <<" ", " ", " ", "O", "p", "t", "i", "o", "n", "s", ":", " ">>
CorrectAnswerPrefix ==
  <<" ", " ", " ", "C", "o", "r", "r", "e", "c", "t", " ",
    "A", "n", "s", "w", "e", "r", ":", " ">>
LessonPrefix == <<"L", "e", "s", "s", "o", "n", ":", " ">>

generateContent(courseData, format) ==
  IF format = "markdown" THEN
    <<"#", " ">> \o courseData.title \o <<"\n", "\n">>
    \o <<"#", "#", " ">> \o Label("courseOutline") \o <<"\n">>
    \o Concat([i \in DOMAIN courseData.outline |->
                 <<"*", " ">> \o courseData.outline[i] \o <<"\n">>])
    \o <<"\n">>
    \o <<"#", "#", " ">> \o Label("mainLessons") \o <<"\n">>
    \o Concat([i \in DOMAIN courseData.lessons |->
                 <<"#", "#", "#", " ">> \o courseData.lessons[i].title \o <<"\n">>
                 \o <<"*", "*">> \o Label("lessonSummaryPrefix") \o <<":", "*", "*", " ">>
                 \o courseData.lessonSummaries[i] \o <<"\n">>
                 \o courseData.lessons[i].content \o <<"\n", "\n">>])
    \o <<"#", "#", " ">> \o Label("courseSummary") \o <<"\n">>
    \o courseData.summary \o <<"\n", "\n">>
    \o <<"#", "#", " ">> \o Label("knowledgeCheck") \o <<"\n">>
    \o Concat([q \in DOMAIN courseData.quiz |->
                 NumToChars(q) \o <<".", " ">> \o courseData.quiz[q].question \o <<"\n">>
                 \o OptionsPrefix \o Join(courseData.quiz[q].options, <<",", " ">>)
                 \o <<"\n">>
                 \o CorrectAnswerPrefix \o courseData.quiz[q].correctAnswer
                 \o <<"\n", "\n">>])
  ELSE
    courseData.title \o <<"\n", "\n">>
    \o Label("courseOutline") \o <<":", "\n">>
    \o Concat([i \in DOMAIN courseData.outline |->
                 <<"-", " ">> \o courseData.outline[i] \o <<"\n">>])
    \o <<"\n">>
    \o Label("mainLessons") \o <<":", "\n">>
    \o Concat([i \in DOMAIN courseData.lessons |->
                 LessonPrefix \o markdownToPlainText(courseData.lessons[i].title)
                 \o <<"\n">>
                 \o Label("lessonSummaryPrefix") \o <<":", " ">>
                 \o markdownToPlainText(courseData.lessonSummaries[i]) \o <<"\n">>
                 \o markdownToPlainText(courseData.lessons[i].content)
                 \o <<"\n", "\n">>])
    \o Label("courseSummary") \o <<":", "\n">>
    \o markdownToPlainText(courseData.summary) \o <<"\n", "\n">>
    \o Label("knowledgeCheck") \o <<":", "\n">>
    \o Concat([q \in DOMAIN courseData.quiz |->
                 NumToChars(q) \o <<".", " ">>
                 \o markdownToPlainText(courseData.quiz[q].question) \o <<"\n">>
                 \o OptionsPrefix
                 \o Join([o \in DOMAIN courseData.quiz[q].options |->
                            markdownToPlainText(courseData.quiz[q].options[o])],
                         <<",", " ">>)
                 \o <<"\n">>
                 \o CorrectAnswerPrefix
                 \o markdownToPlainText(courseData.quiz[q].correctAnswer)
                 \o <<"\n", "\n">>])

\* ------------------------------------------------------- download dialog
\* pieces of markdown a text field of a course is made of
Pieces ==
  { <<"a">>, <<" ">>, <<"\n">>, <<"*">>, <<"*", "*">>, <<"#", "#">>, <<"_">>,
    <<"[", "a", "]", "(", "u", ")">>, <<"!">>, <<"A">>, <<"1", ".">> }

RECURSIVE TextsOf(_)
TextsOf(n) ==
  IF n = 0 THEN { <<>> }
  ELSE TextsOf(n - 1) \cup {t \o p : t \in TextsOf(n - 1), p \in Pieces}

Texts == TextsOf(MaxPieces)

CourseFields ==
  {"title", "outline", "lessonTitle", "lessonContent", "lessonSummary",
   "summary", "question", "option", "correctAnswer"}

\* a course of one lesson and one question whose field holds text
CourseWith(field, text) ==
  LET F(name) == IF field = name THEN text ELSE <<"x">> IN
  [title           |-> F("title"),
   outline         |-> <<F("outline")>>,
   lessons         |-> <<[title |-> F("lessonTitle"), content |-> F("lessonContent")]>>,
   lessonSummaries |-> <<F("lessonSummary")>>,
   summary         |-> F("summary"),
   quiz            |-> <<[question      |-> F("question"),
                          options       |-> <<F("option"), <<"y">>>>,
                          correctAnswer |-> F("correctAnswer")]>>]

NoDownload == [k |-> "null"]

\* the dialog of a CourseDisplay that shows courseData, after its first render
DownloadInit(courseData) ==
  /\ exportCourse = courseData
  /\ showDownloadConfirm = FALSE
  /\ downloadFormat = "markdown"
  /\ downloaded = NoDownload

\* onClick={() => setShowDownloadConfirm(true)}
openDownloadConfirm ==
  /\ ~showDownloadConfirm
  /\ showDownloadConfirm' = TRUE
  /\ UNCHANGED <<exportCourse, downloadFormat, downloaded>>
  /\ UNCHANGED <<appVars, quizVars, flagVars, netVars, histVars, serviceShapes, fbVars,
                 pwaVars>>

\* onChange={() => setDownloadFormat(format)}
setDownloadFormat(format) ==
  /\ showDownloadConfirm
  /\ format \in {"markdown", "plaintext"}
  /\ downloadFormat' = format
  /\ UNCHANGED <<exportCourse, showDownloadConfirm, downloaded>>
  /\ UNCHANGED <<appVars, quizVars, flagVars, netVars, histVars, serviceShapes, fbVars,
                 pwaVars>>

\* onClick={() => setShowDownloadConfirm(false)}
cancelDownload ==
  /\ showDownloadConfirm
  /\ showDownloadConfirm' = FALSE
  /\ UNCHANGED <<exportCourse, downloadFormat, downloaded>>
  /\ UNCHANGED <<appVars, quizVars, flagVars, netVars, histVars, serviceShapes, fbVars,
                 pwaVars>>

\* the characters /[^a-z0-9]/gi leaves alone
AlphaNumeric ==
  {"a", "b", "c", "d", "e", "f", "g", "h", "i", "j", "k", "l", "m",
   "n", "o", "p", "q", "r", "s", "t", "u", "v", "w", "x", "y", "z",
   "A", "B", "C", "D", "E", "F", "G", "H", "I", "J", "K", "L", "M",
   "N", "O", "P", "Q", "R", "S", "T", "U", "V", "W", "X", "Y", "Z"}
    \cup DigitChars

\* a faulty variant of SanitizeTitle: the i flag is missing
SanitizeTitle_caseSensitive(title) ==
  [i \in 1..Len(title) |->
     IF title[i] \in AlphaNumeric /\ title[i] \notin
          {"A", "B", "C", "D", "E", "F", "G", "H", "I", "J", "K", "L", "M",
           "N", "O", "P", "Q", "R", "S", "T", "U", "V", "W", "X", "Y", "Z"}
       THEN title[i] ELSE "_"]

\* course.title.replace(/[^a-z0-9]/gi, '_')
SanitizeTitle(title) ==
  [i \in 1..Len(title) |-> IF title[i] \in AlphaNumeric THEN title[i] ELSE "_"]

FileNamePrefix ==
  <<"G", "e", "e", "d", "d", "i", "-", "A", "I", "-",
    "C", "o", "u", "r", "s", "e", "-">>

initiateDownload ==
  /\ showDownloadConfirm
  /\ LET fileExtension == IF downloadFormat = "markdown" THEN <<"m", "d">>
                                                         ELSE <<"t", "x", "t">>
         fileName == FileNamePrefix \o SanitizeTitle(exportCourse.title)
                       \o <<".">> \o fileExtension
         mimeType == IF downloadFormat = "markdown"
                       THEN <<"text/markdown", ";", "charset=utf-8">>
                       ELSE <<"text/plain", ";", "charset=utf-8">>
     IN  downloaded' = [k        |-> "file",
                        format   |-> downloadFormat,
                        content  |-> generateContent(exportCourse, downloadFormat),
                        fileName |-> fileName,
                        mimeType |-> mimeType]
  /\ showDownloadConfirm' = FALSE
  /\ UNCHANGED <<exportCourse, downloadFormat>>
  /\ UNCHANGED <<appVars, quizVars, flagVars, netVars, histVars, serviceShapes, fbVars,
                 pwaVars>>

DownloadNext ==
  \/ openDownloadConfirm
  \/ \E format \in {"markdown", "plaintext"} : setDownloadFormat(format)
  \/ cancelDownload
  \/ initiateDownload

\* --------------------------------------------------------- install prompt
NoEvent == [k |-> "null"]
PwaOp(name, outcome) == [op |-> name, outcome |-> outcome]
InstallEvent(id) == [k |-> "event", id |-> id]

\* App after its first render and the effect of lines 31-61; standalone is
\* window.matchMedia('(display-mode: standalone)').matches
InstallInit(standalone) ==
  /\ deferredPrompt = NoEvent
  /\ isAppInstalled = standalone
  /\ showAppDownloadQR = FALSE
  /\ promptCalls = <<>>
  /\ choiceAwaited = <<>>
  /\ getAppClicks = 0
  /\ pwaLast = PwaOp("init", "")

\* CourseDisplay is rendered: {course && <LazyCourseDisplay ... />}
CourseDisplayed == course.k # "null"

\* the platform fires beforeinstallprompt with a new event
handleBeforeInstallPrompt ==
  /\ Len(promptCalls) < MaxInstallEvents
  /\ deferredPrompt' = InstallEvent(Len(promptCalls) + 1)
  /\ promptCalls' = Append(promptCalls, 0)
  /\ choiceAwaited' = Append(choiceAwaited, 0)
  /\ pwaLast' = PwaOp("beforeinstallprompt", "")
  /\ UNCHANGED <<isAppInstalled, showAppDownloadQR, getAppClicks>>
  /\ UNCHANGED <<appVars, quizVars, flagVars, netVars, histVars, serviceShapes,
                 fbVars, exVars>>

\* the platform fires appinstalled
handleAppInstalled ==
  /\ isAppInstalled' = TRUE
  /\ deferredPrompt' = NoEvent
  /\ pwaLast' = PwaOp("appinstalled", "")
  /\ UNCHANGED <<showAppDownloadQR, promptCalls, choiceAwaited, getAppClicks>>
  /\ UNCHANGED <<appVars, quizVars, flagVars, netVars, histVars, serviceShapes,
                 fbVars, exVars>>

\* handleInstallApp up to `await (deferredPrompt as any).userChoice`
handleInstallApp ==
  IF deferredPrompt # NoEvent
    THEN /\ promptCalls' = [promptCalls EXCEPT ![deferredPrompt.id] = @ + 1]
         /\ choiceAwaited' = [choiceAwaited EXCEPT ![deferredPrompt.id] = @ + 1]
    ELSE UNCHANGED <<promptCalls, choiceAwaited>>

\* a faulty variant of handleGetAppClick: the QR dialog is opened as well when
\* a prompt is held
handleGetAppClick_alwaysQR ==
  /\ CourseDisplayed /\ ~isAppInstalled
  /\ getAppClicks < MaxGetAppClicks
  /\ getAppClicks' = getAppClicks + 1
  /\ pwaLast' = PwaOp("handleGetAppClick", "")
  /\ handleInstallApp
  /\ showAppDownloadQR' = TRUE
  /\ UNCHANGED <<deferredPrompt, isAppInstalled>>
  /\ UNCHANGED <<appVars, quizVars, flagVars, netVars, histVars, serviceShapes,
                 fbVars, exVars>>

\* the get-app button, rendered while !isAppInstalled
handleGetAppClick ==
  /\ CourseDisplayed /\ ~isAppInstalled
  /\ getAppClicks < MaxGetAppClicks
  /\ getAppClicks' = getAppClicks + 1
  /\ pwaLast' = PwaOp("handleGetAppClick", "")
  /\ IF deferredPrompt # NoEvent
       THEN /\ handleInstallApp          \* onInstallApp()
            /\ UNCHANGED showAppDownloadQR
       ELSE /\ showAppDownloadQR' = TRUE
            /\ UNCHANGED <<promptCalls, choiceAwaited>>
  /\ UNCHANGED <<deferredPrompt, isAppInstalled>>
  /\ UNCHANGED <<appVars, quizVars, flagVars, netVars, histVars, serviceShapes,
                 fbVars, exVars>>

\* a faulty variant of UserChoiceResolved: a dismissed prompt is kept for a
\* later try
UserChoiceResolved_keepsDismissed(id, outcome) ==
  /\ id \in 1..Len(promptCalls)
  /\ outcome \in {"accepted", "dismissed"}
  /\ promptCalls[id] > 0
  /\ choiceAwaited[id] > 0
  /\ choiceAwaited' = [choiceAwaited EXCEPT ![id] = 0]
  /\ deferredPrompt' = IF outcome = "accepted" THEN NoEvent ELSE deferredPrompt
  /\ isAppInstalled' = (isAppInstalled \/ outcome = "accepted")
  /\ pwaLast' = PwaOp("userChoice", outcome)
  /\ UNCHANGED <<showAppDownloadQR, promptCalls, getAppClicks>>
  /\ UNCHANGED <<appVars, quizVars, flagVars, netVars, histVars, serviceShapes,
                 fbVars, exVars>>

\* userChoice of event id resolves with outcome; every call of
\* handleInstallApp that awaits it goes on after its await
UserChoiceResolved(id, outcome) ==
  /\ id \in 1..Len(promptCalls)
  /\ outcome \in {"accepted", "dismissed"}
  /\ promptCalls[id] > 0
  /\ choiceAwaited[id] > 0
  /\ choiceAwaited' = [choiceAwaited EXCEPT ![id] = 0]
  /\ deferredPrompt' = NoEvent
  /\ isAppInstalled' = (isAppInstalled \/ outcome = "accepted")
  /\ pwaLast' = PwaOp("userChoice", outcome)
  /\ UNCHANGED <<showAppDownloadQR, promptCalls, getAppClicks>>
  /\ UNCHANGED <<appVars, quizVars, flagVars, netVars, histVars, serviceShapes,
                 fbVars, exVars>>

\* onClick={() => setShowAppDownloadQR(false)}
closeAppDownloadQR ==
  /\ CourseDisplayed /\ showAppDownloadQR
  /\ showAppDownloadQR' = FALSE
  /\ pwaLast' = PwaOp("closeAppDownloadQR", "")
  /\ UNCHANGED <<deferredPrompt, isAppInstalled, promptCalls, choiceAwaited,
                 getAppClicks>>
  /\ UNCHANGED <<appVars, quizVars, flagVars, netVars, histVars, serviceShapes,
                 fbVars, exVars>>

InstallNext ==
  \/ handleBeforeInstallPrompt
  \/ handleAppInstalled
  \/ handleGetAppClick
  \/ \E id \in 1..MaxInstallEvents, outcome \in {"accepted", "dismissed"} :
       UserChoiceResolved(id, outcome)
  \/ closeAppDownloadQR

\* ------------------------------------------------------- specification
\* the page after its first render: no course, no feedback section mounted
Init ==
  /\ AppInit
  /\ serviceShapes = {"aligned"}
  /\ FeedbackInit
  /\ DownloadInit(NoCourse)
  /\ InstallInit(FALSE)

Next ==
  \/ \E topic \in Topics : handleGenerateCourse(topic)
  \/ \E r \in genRequests, n \in 1..MaxQuiz, shape \in ResponseShapes :
       GenerateResolved(r, n, shape)
  \/ \E r \in genRequests, o \in {"reject", "badjson"} : GenerateRejected(r, o)
  \/ \E r \in genRequests, o \in {"noquiz", "jsonnull"} : GenerateUnusable(r, o)
  \/ RevealTimer
  \/ \E value \in Languages : handleLanguageChange(value)
  \/ \E q \in 1..MaxQuiz, option \in {QuizOptions[i] : i \in 1..Len(QuizOptions)} :
       handleAnswerSelection(q, option)
  \/ \E r \in explRequests, text \in ExplanationTexts : ExplanationResolved(r, text)
  \/ \E r \in explRequests : ExplanationRejected(r)

\* the service keeps lessonSummaries aligned with lessons and every
\* correctAnswer among its options
Spec == Init /\ [][Next]_vars

\* the service may answer with any object that conforms to the response schema
InitAnyResponse ==
  /\ AppInit
  /\ serviceShapes = ResponseShapes
  /\ FeedbackInit
  /\ DownloadInit(NoCourse)
  /\ InstallInit(FALSE)

SpecAnyResponse == InitAnyResponse /\ [][Next]_vars

\* a feedback section over the life of the page
SpecFeedback == Init /\ [][FeedbackNext]_vars

\* the download dialog over a course with markdown in one of its text fields
InitDownload ==
  /\ AppInit
  /\ serviceShapes = {"aligned"}
  /\ FeedbackInit
  /\ \E field \in CourseFields, text \in Texts :
       DownloadInit(CourseWith(field, text))
  /\ InstallInit(FALSE)

SpecDownload == InitDownload /\ [][DownloadNext]_vars

\* the page showing a course, all sections revealed: what App holds after one
\* topic click, the answer of the service and the four callbacks of the reveal
AppShowingCourse ==
  /\ isGeneratingCourse = FALSE
  /\ error = NULL
  /\ course = ParsedCourse(1, 1, "aligned")
  /\ language = "so"
  /\ quizAnswers = NewArrayFill(1, NULL)
  /\ quizFeedback = NewArrayFill(1, NULL)
  /\ quizExplanations = NewArrayFill(1, JNull)
  /\ explanationLoading = NewArrayFill(1, JFalse)
  /\ loadingOutline = FALSE
  /\ loadingLessons = FALSE
  /\ loadingSummary = FALSE
  /\ loadingQuiz = FALSE
  /\ genRequests = {}
  /\ explRequests = {}
  /\ timers = <<>>
  /\ genCount = 1
  /\ userActions = 1
  /\ langChangeAt = 0
  /\ resetPending = FALSE
  /\ quiet = TRUE
  /\ lastOp = [op |-> "RevealTimer", q |-> 4, arg |-> "", guard |-> TRUE,
               outcome |-> "",
               hadCourse |-> TRUE, hadFailed |-> FALSE]

\* the install prompt and the get-app button while a course is shown, in a
\* browser tab or in the installed app
InitInstall ==
  /\ AppShowingCourse
  /\ serviceShapes = {"aligned"}
  /\ FeedbackInit
  /\ DownloadInit(NoCourse)
  /\ \E standalone \in BOOLEAN : InstallInit(standalone)

SpecInstall == InitInstall /\ [][InstallNext]_vars

\* ---------------------------------------------------------- properties
AllFlagsFalse ==
  ~loadingOutline /\ ~loadingLessons /\ ~loadingSummary /\ ~loadingQuiz

\* question q has an answer / is waiting for its explanation
HasAnswer(q) == q \in 1..Len(quizAnswers) /\ quizAnswers[q] \notin {NULL, UNDEF}
IsLoading(q) == q \in 1..Len(explanationLoading) /\ explanationLoading[q] = JTrue

\* an explanation request for question q of the displayed course is in flight
ExplanationOutstanding(q) ==
  \E r \in explRequests : r.q = q /\ r.courseId = course.id

\* C1: at most one course-generation request is outstanding at any time, and
\* isGeneratingCourse is true (the topic buttons are disabled) for as long as
\* one is outstanding.
C1_OneGenerationInFlight ==
  /\ Cardinality(genRequests) <= 1
  /\ genRequests # {} => isGeneratingCourse

\* C2: once the explanation request of a question answered incorrectly has
\* settled, the question's explanationLoading flag is false, and the settlement
\* of another question's request does not set it back to true.
C2_SettledExplanationNotLoading ==
  course.k = "course" =>
    \A q \in 1..Len(course.quiz) :
      (ArrGet(quizFeedback, q, UNDEF) = "incorrect" /\ ~ExplanationOutstanding(q))
        => ~IsLoading(q)

\* C3: handleAnswerSelection(q, option) on a question that already has an
\* answer, or whose explanation is loading, changes none of the four quiz
\* arrays and issues no explanation request.
C3_AnsweredQuestionRejectsSelection ==
  [][ \A q \in 1..MaxQuiz :
        ( /\ lastOp'.op = "handleAnswerSelection"
          /\ lastOp'.q = q
          /\ userActions' # userActions
          /\ (HasAnswer(q) \/ IsLoading(q)) )
        => UNCHANGED <<quizAnswers, quizFeedback, quizExplanations,
                       explanationLoading, explRequests>> ]_vars

\* a selection was made on a question that had an answer and whose explanation
\* was loading, and the handler has returned
C3_Witness ==
  /\ lastOp.op = "handleAnswerSelection"
  /\ ~lastOp.guard
  /\ HasAnswer(lastOp.q)
  /\ IsLoading(lastOp.q)
  /\ explRequests # {}

\* C4: from the start or the failure of a generation until a later generation
\* succeeds, the four section-loading flags are all false; a timer left over
\* from an earlier reveal sequence sets none of them.
C4_FlagsStayResetUntilSuccess == resetPending => AllFlagsFalse

\* C5: after a successful generation followed by no user action the flags are
\* true one at a time, in the order outline, lessons, summary, quiz, each
\* cleared in the step that sets the next: at every moment at most one flag is
\* true.
C5_RevealOneStageAtATime ==
  quiet =>
    <<loadingOutline, loadingLessons, loadingSummary, loadingQuiz>> \in
      { <<TRUE, FALSE, FALSE, FALSE>>, <<FALSE, TRUE, FALSE, FALSE>>,
        <<FALSE, FALSE, TRUE, FALSE>>, <<FALSE, FALSE, FALSE, TRUE>>,
        <<FALSE, FALSE, FALSE, FALSE>> }

\* C6: when a generation request fails (the call rejects, the text is not
\* JSON, or the parsed object cannot initialise the quiz arrays), then after
\* the handler has finished error is the generatingError message, course is
\* null and isGeneratingCourse is false.
C6_FailedGenerationLeavesNoCourse ==
  lastOp.op \in {"GenerateRejected", "GenerateUnusable"} =>
    /\ error \in {translations[l].generatingError : l \in Languages}
    /\ course = NoCourse
    /\ ~isGeneratingCourse

\* C7: handleLanguageChange, called while a course exists, leaves course null,
\* the four quiz arrays empty, the four section-loading flags false and
\* isGeneratingCourse false.
C7_LanguageChangeClearsSession ==
  (lastOp.op = "handleLanguageChange" /\ lastOp.hadCourse) =>
    /\ course = NoCourse
    /\ quizAnswers = <<>>
    /\ quizFeedback = <<>>
    /\ quizExplanations = <<>>
    /\ explanationLoading = <<>>
    /\ AllFlagsFalse
    /\ ~isGeneratingCourse

\* the language was changed while a course was displayed
C7_Witness ==
  /\ lastOp.op = "handleLanguageChange"
  /\ lastOp.hadCourse
  /\ language = "en"
  /\ course = NoCourse

\* C8: after a language change course stays null until a generation request
\* started after that change succeeds: the response to a request started before
\* the change installs no course.
C8_NoCourseFromRequestBeforeLanguageChange ==
  course.k = "course" => course.id > langChangeAt

\* C9: whenever course is not null, quizAnswers, quizFeedback, quizExplanations
\* and explanationLoading each have the length of course.quiz, also when an
\* explanation request of an earlier course settles after a new course was
\* generated.
C9_QuizArraysMatchQuiz ==
  course.k = "course" =>
    /\ Len(quizAnswers) = Len(course.quiz)
    /\ Len(quizFeedback) = Len(course.quiz)
    /\ Len(quizExplanations) = Len(course.quiz)
    /\ Len(explanationLoading) = Len(course.quiz)

\* C10: immediately after a successful generation the four quiz arrays have
\* the length of course.quiz, with every answer, feedback and explanation null
\* and every explanationLoading flag false.
C10_FreshQuizArrays ==
  lastOp.op = "GenerateResolved" =>
    /\ course.k = "course"
    /\ Len(quizAnswers) = Len(course.quiz)
    /\ Len(quizFeedback) = Len(course.quiz)
    /\ Len(quizExplanations) = Len(course.quiz)
    /\ Len(explanationLoading) = Len(course.quiz)
    /\ \A i \in 1..Len(course.quiz) :
         /\ quizAnswers[i] = NULL
         /\ quizFeedback[i] = NULL
         /\ quizExplanations[i] = JNull
         /\ explanationLoading[i] = JFalse

\* a generation has just succeeded with a quiz of more than one question,
\* replacing the session of an earlier course
C10_Witness ==
  /\ lastOp.op = "GenerateResolved"
  /\ course.k = "course"
  /\ course.id > 1
  /\ Len(course.quiz) > 1
  /\ Len(quizAnswers) > 1

\* C11: every course installed by a successful generation has as many
\* lessonSummaries as lessons and, in every quiz item, a correctAnswer that is
\* one of its options, whatever object the service returns.
C11_InstalledCourseWellFormed ==
  course.k = "course" =>
    /\ Len(course.lessonSummaries) = Len(course.lessons)
    /\ \A i \in 1..Len(course.quiz) :
         \E j \in 1..Len(course.quiz[i].options) :
           course.quiz[i].correctAnswer = course.quiz[i].options[j]

\* what quizExplanations[q] is once the request of q has settled: the trimmed
\* response text or the failedExplanation message
SettledExplanations ==
  {JStr(Trim(text)) : text \in ExplanationTexts} \cup
  {JStr(<<translations[l].failedExplanation>>) : l \in Languages}

\* C12: after the explanation request of question q has settled,
\* quizExplanations[q] is the trimmed response text or the failedExplanation
\* message, and keeps that value (it is not null or the loading placeholder
\* again) when the requests of other questions settle.
C12_SettledExplanationKept ==
  course.k = "course" =>
    \A q \in 1..Len(course.quiz) :
      (ArrGet(quizFeedback, q, UNDEF) = "incorrect" /\ ~ExplanationOutstanding(q))
        => ArrGet(quizExplanations, q, JUndef) \in SettledExplanations

\* C13: every question is unanswered, answered-correct (no explanation request,
\* explanationLoading false, explanation null), answered-incorrect with its
\* explanation loading, or answered-incorrect with its explanation ready or
\* failed, and moves only forward through these.
C13_QuestionStateMachine ==
  course.k = "course" =>
    \A q \in 1..Len(course.quiz) :
      LET a == ArrGet(quizAnswers, q, UNDEF)
          f == ArrGet(quizFeedback, q, UNDEF)
          e == ArrGet(quizExplanations, q, JUndef)
          l == ArrGet(explanationLoading, q, UNDEF)
      IN  \/ a = NULL /\ f = NULL /\ l = JFalse /\ e = JNull
                      /\ ~ExplanationOutstanding(q)
          \/ a # NULL /\ f = "correct" /\ l = JFalse /\ e = JNull
                      /\ ~ExplanationOutstanding(q)
          \/ a # NULL /\ f = "incorrect" /\ l = JTrue
                      /\ ExplanationOutstanding(q)
          \/ a # NULL /\ f = "incorrect" /\ l = JFalse
                      /\ e \in SettledExplanations /\ ~ExplanationOutstanding(q)

\* C14, as claimed: after the explanation request of question q has failed,
\* selecting an option on q again issues a new explanation request for q.
C14_ReselectRetriesExplanation ==
  (lastOp.op = "handleAnswerSelection" /\ lastOp.hadFailed)
    => ExplanationOutstanding(lastOp.q)

\* C14, amended: after the explanation request of question q has failed,
\* selecting an option on q again issues no explanation request and leaves the
\* failed-explanation message in place: the question stays answered.
C14_ReselectAfterFailureIsNoOp ==
  [][ \A q \in 1..MaxQuiz :
        ( /\ lastOp'.op = "handleAnswerSelection"
          /\ lastOp'.q = q
          /\ userActions' # userActions
          /\ HasAnswer(q)
          /\ ArrGet(quizExplanations, q, JUndef) \in
               {JStr(<<translations[l].failedExplanation>>) : l \in Languages} )
        => /\ explRequests' = explRequests
           /\ quizExplanations' = quizExplanations
           /\ quizAnswers' = quizAnswers ]_vars

\* an option was selected on a question whose explanation request had failed
C14_Witness ==
  /\ lastOp.op = "handleAnswerSelection"
  /\ lastOp.hadFailed
  /\ ArrGet(quizFeedback, lastOp.q, UNDEF) = "incorrect"
  /\ ArrGet(quizExplanations, lastOp.q, JUndef) =
       JStr(<<translations[language].failedExplanation>>)
  /\ explRequests = {}

\* C15: while a course is shown, a question with no answer and no explanation
\* request of its own outstanding accepts a selection: the guard of the handler
\* passes and its explanationLoading flag is false, whatever happens to the
\* explanation requests of other questions.
C15_UnansweredQuestionAcceptsSelection ==
  course.k = "course" =>
    \A q \in 1..Len(course.quiz) :
      ( /\ ArrGet(quizAnswers, q, UNDEF) = NULL
        /\ \A r \in explRequests : r.q # q )
      => /\ ~AnsweredOrLoading(q)
         /\ ~IsLoading(q)

\* ---------------------------------------------- properties: FeedbackSection
\* the key of the mounted section
CurrentKey == localStorageKey(fbProps)

\* the step just taken is a call of the handler named op
FeedbackCall(op) == fbActions' # fbActions /\ fbLast'.op = op

\* C16: handleSubmit with rating 0 writes nothing to storage and leaves
\* submitted and showThankYou unchanged.
C16_SubmitWithoutRatingDoesNothing ==
  [][(FeedbackCall("handleSubmit") /\ rating = 0)
       => /\ localStorage' = localStorage
          /\ submitted' = submitted
          /\ showThankYou' = showThankYou]_vars

\* handleSubmit has run with rating 0
C16_Witness ==
  /\ fbLast.op = "handleSubmit"
  /\ fbLast.rating = 0
  /\ fbMounted /\ rating = 0 /\ ~submitted

\* C17: for every rating in 1..5 and every comment, handleSubmit stores
\* {rating, comment} under the section's key, and a later mount of a section
\* with the same key loads exactly that rating and comment and shows it as
\* submitted.
C17_SubmitThenMountRoundTrips ==
  /\ (fbLast.op = "handleSubmit" /\ fbLast.rating \in Stars)
       => /\ getItem(CurrentKey) # JNull
          /\ JsonParse(getItem(CurrentKey).s).ok
          /\ JsonParse(getItem(CurrentKey).s).rating = fbLast.rating
          /\ JsonParse(getItem(CurrentKey).s).comment = fbLast.comment
  /\ (fbLast.op = "mount" /\ Saved(CurrentKey) # NoRecord)
       => /\ rating = Saved(CurrentKey).rating
          /\ comment = Saved(CurrentKey).comment
          /\ submitted

\* a section is mounted for a key under which a rating and a comment with
\* a quote and a backslash were submitted before
C17_Witness ==
  /\ fbLast.op = "mount"
  /\ Saved(CurrentKey) # NoRecord
  /\ Saved(CurrentKey).comment = <<"a", "\"", "\\">>
  /\ comment = <<"a", "\"", "\\">>
  /\ rating \in Stars
  /\ submitted

\* C18: whenever a feedback section loads for a key (on mount or when its key
\* changes while mounted), the rating, comment and submitted flag it holds
\* afterwards are the stored record for that key with submitted true, or
\* (0, empty comment, not submitted) when no record is stored for that key.
C18_LoadShowsStoredRecord ==
  fbLast.op \in {"mount", "keyChange"}
    => IF Saved(CurrentKey) # NoRecord
         THEN /\ rating = Saved(CurrentKey).rating
              /\ comment = Saved(CurrentKey).comment
              /\ submitted
         ELSE /\ rating = 0
              /\ comment = <<>>
              /\ ~submitted

\* C19: handleEdit only sets submitted to false: the stored record for the key
\* is unchanged, and changes made to rating or comment while editing are not
\* written to storage until the next handleSubmit.
C19_EditLeavesStorage ==
  [][/\ FeedbackCall("handleEdit")
          => /\ submitted' = FALSE
             /\ UNCHANGED <<localStorage, rating, comment, showThankYou,
                            thankYouTimers, fbMounted, fbProps>>
     /\ (FeedbackCall("setRating") \/ FeedbackCall("setComment"))
          => localStorage' = localStorage]_vars

\* after handleEdit the rating was changed, and the record stored for the key
\* still holds the rating submitted before
C19_Witness ==
  /\ fbLast.op = "setRating"
  /\ ~submitted
  /\ Saved(CurrentKey) # NoRecord
  /\ rating # Saved(CurrentKey).rating
  /\ getItem(CurrentKey) # JNull
  /\ JsonParse(getItem(CurrentKey).s).rating = Saved(CurrentKey).rating

\* ------------------------------------------------- properties: download
\* content holds the characters of piece next to each other
Contains(content, piece) ==
  \E i \in 1..(Len(content) - Len(piece) + 1) :
    SubSeq(content, i, i + Len(piece) - 1) = piece

\* content holds a [text](url) sequence
ContainsLink(content) ==
  \E i \in 1..Len(content) :
    /\ content[i] = "["
    /\ \E j \in (i + 1)..(Len(content) - 1), k \in (i + 3)..Len(content) :
         /\ j + 1 < k
         /\ content[j] = "]" /\ content[j + 1] = "(" /\ content[k] = ")"
         /\ \A x \in i..k : content[x] # "\n"

\* C20: for every course, the plain-text export contains no literal **, no ##
\* and no [text](url) sequence coming from any of the course's text fields.
C20_PlainTextExportHasNoMarkdown ==
  (downloaded # NoDownload /\ downloaded.format = "plaintext")
    => /\ ~Contains(downloaded.content, <<"*", "*">>)
       /\ ~Contains(downloaded.content, <<"#", "#">>)
       /\ ~ContainsLink(downloaded.content)

\* ------------------------------------------------ properties: requests
\* prompt holds the words "in the <name> language"
NamesLanguage(prompt, name) ==
  \E i \in 1..(Len(prompt) - 2) :
    prompt[i] = "in the " /\ prompt[i + 1] = name /\ prompt[i + 2] = " language"

\* C21: the generation request names the language selected when the request
\* starts: its prompt contains "in the English language" when the language is
\* en and "in the Somali language" when it is so.
C21_PromptNamesSelectedLanguage ==
  [][\A r \in genRequests' \ genRequests :
       /\ language = "en" => NamesLanguage(RequestPrompt(r), "English")
       /\ language = "so" => NamesLanguage(RequestPrompt(r), "Somali")]_vars

\* a request started while English was selected is in flight
C21_Witness ==
  /\ lastOp.op = "handleGenerateCourse"
  /\ lastOp.guard
  /\ language = "en"
  /\ \E r \in genRequests : r.id = genCount /\ NamesLanguage(RequestPrompt(r), "English")

\* C22: the download file name is Geeddi-AI-Course- followed by the course title
\* with every character outside a-z, A-Z, 0-9 replaced by _ (length
\* preserved), followed by .md for markdown or .txt for plain text, and the
\* MIME type is text/markdown for markdown and text/plain for plain text.
C22_FileNameAndMimeType ==
  downloaded # NoDownload =>
    LET title == exportCourse.title
        name  == downloaded.fileName
        ext   == IF downloaded.format = "markdown" THEN <<".", "m", "d">>
                                                   ELSE <<".", "t", "x", "t">>
        stem  == SubSeq(name, 18, Len(name) - Len(ext))
    IN  /\ SubSeq(name, 1, 17) =
             <<"G", "e", "e", "d", "d", "i", "-", "A", "I", "-",
               "C", "o", "u", "r", "s", "e", "-">>
        /\ Len(name) = 17 + Len(title) + Len(ext)
        /\ SubSeq(name, Len(name) - Len(ext) + 1, Len(name)) = ext
        /\ \A i \in 1..Len(title) :
             stem[i] = IF title[i] \in AlphaNumeric THEN title[i] ELSE "_"
        /\ downloaded.mimeType[1] =
             (IF downloaded.format = "markdown" THEN "text/markdown" ELSE "text/plain")

\* a plain-text file was downloaded for a course whose title holds a capital
\* letter, a digit and a character that is replaced
C22_Witness ==
  /\ downloaded # NoDownload
  /\ downloaded.format = "plaintext"
  /\ \E i, j \in 1..Len(exportCourse.title) :
       /\ exportCourse.title[i] = "A"
       /\ exportCourse.title[j] = "."
       /\ downloaded.fileName[17 + i] = "A"
       /\ downloaded.fileName[17 + j] = "_"

\* --------------------------------------------- properties: install prompt
\* C23: a click on the get-app control triggers the platform install prompt and
\* does not open the QR dialog when a deferred install prompt is held, and
\* opens the QR dialog without triggering the platform prompt when none is
\* held; the control is offered only while the app is not installed.
C23_GetAppPromptsOrShowsQR ==
  [][getAppClicks' # getAppClicks =>
       /\ ~isAppInstalled
       /\ deferredPrompt # NoEvent =>
            /\ promptCalls'[deferredPrompt.id] = promptCalls[deferredPrompt.id] + 1
            /\ showAppDownloadQR' = showAppDownloadQR
       /\ deferredPrompt = NoEvent =>
            /\ promptCalls' = promptCalls
            /\ showAppDownloadQR']_vars

\* the button was clicked with a prompt held, which was prompted and not yet
\* answered, and the QR dialog is closed
C23_Witness ==
  /\ getAppClicks > 0
  /\ deferredPrompt # NoEvent
  /\ promptCalls[deferredPrompt.id] = 1
  /\ choiceAwaited[deferredPrompt.id] = 1
  /\ ~showAppDownloadQR

\* ------------------------------------------- properties: errors and reveal
\* C24: whenever the error banner is shown, its text is the generatingError
\* message of the currently selected language, also after a language change
\* made while a request was in flight or after the error appeared.
C24_ErrorInSelectedLanguage ==
  error # NULL =>
    error = (IF language = "so" THEN "so.generatingError" ELSE "en.generatingError")

\* C26: in every reachable state, if the error banner is set then course is
\* null, also when two generation requests overlap and one fails while the
\* other succeeds.
C26_ErrorMeansNoCourse ==
  error # NULL => course.k = "null"

\* C27: in every reachable state at most one of loadingOutline, loadingLessons,
\* loadingSummary, loadingQuiz is true, also when a second reveal sequence
\* starts while timers of an earlier one are still pending.
C27_AtMostOneSectionLoading ==
  Cardinality({f \in {"outline", "lessons", "summary", "quiz"} :
                 \/ f = "outline" /\ loadingOutline
                 \/ f = "lessons" /\ loadingLessons
                 \/ f = "summary" /\ loadingSummary
                 \/ f = "quiz"    /\ loadingQuiz}) <= 1

\* C28: after any finite sequence of topic clicks, language changes and request
\* settlements, once every pending reveal timer has fired all four
\* section-loading flags are false.
C28_NoTimerLeftMeansNoSectionLoading ==
  timers = <<>> =>
    ~loadingOutline /\ ~loadingLessons /\ ~loadingSummary /\ ~loadingQuiz

\* the last reveal callback has fired after a second generation, and a course
\* is shown
C28_Witness ==
  /\ timers = <<>>
  /\ lastOp.op = "RevealTimer"
  /\ lastOp.q = 4
  /\ genCount >= 2
  /\ genRequests = {}
  /\ course.k = "course"

\* C29: once every outstanding generation request has settled,
\* isGeneratingCourse is false, so the topic buttons are enabled again after
\* any success or failure.
C29_AllSettledMeansNotGenerating ==
  genRequests = {} => ~isGeneratingCourse

\* the last of two requests has failed and none is left
C29_Witness ==
  /\ genRequests = {}
  /\ genCount >= 2
  /\ lastOp.op \in {"GenerateRejected", "GenerateUnusable"}
  /\ ~isGeneratingCourse

\* C25: no request is ever re-sent automatically: each accepted topic click
\* issues exactly one generation request and each accepted incorrect selection
\* issues exactly one explanation request, and a failure of either issues no
\* further request.
C25_NoAutomaticRetry ==
  [][LET byUser == userActions' # userActions
         acceptedClick ==
           byUser /\ lastOp'.op = "handleGenerateCourse" /\ lastOp'.guard
         acceptedIncorrect ==
           /\ byUser /\ lastOp'.op = "handleAnswerSelection" /\ lastOp'.guard
           /\ lastOp'.outcome = "incorrect"
     IN  /\ acceptedClick =>
              /\ genRequests \subseteq genRequests'
              /\ Cardinality(genRequests' \ genRequests) = 1
              /\ explRequests' = explRequests
         /\ acceptedIncorrect =>
              /\ explRequests \subseteq explRequests'
              /\ Cardinality(explRequests' \ explRequests) = 1
              /\ genRequests' = genRequests
         /\ (~acceptedClick /\ ~acceptedIncorrect) =>
              /\ genRequests' \subseteq genRequests
              /\ explRequests' \subseteq explRequests]_vars

\* an explanation request has failed after one generation, and nothing is in
\* flight
C25_Witness ==
  /\ lastOp.op = "ExplanationRejected"
  /\ genCount = 1
  /\ genRequests = {}
  /\ explRequests = {}

\* C30: an accepted answer selection on question q sets quizAnswers[q] to the
\* chosen option and quizFeedback[q] to 'correct' exactly when the option
\* equals course.quiz[q].correctAnswer, and to 'incorrect' otherwise, and
\* leaves the answers and feedback of every other question unchanged.
C30_SelectionRecordsAnswerAndFeedback ==
  [][(/\ userActions' # userActions
      /\ lastOp'.op = "handleAnswerSelection"
      /\ lastOp'.guard) =>
       LET q == lastOp'.q
           option == lastOp'.arg
       IN  /\ quizAnswers'[q] = option
           /\ option = course.quiz[q].correctAnswer =>
                quizFeedback'[q] = "correct"
           /\ option # course.quiz[q].correctAnswer =>
                quizFeedback'[q] = "incorrect"
           /\ Len(quizAnswers') = Len(quizAnswers)
           /\ Len(quizFeedback') = Len(quizFeedback)
           /\ \A i \in 1..Len(quizAnswers) :
                i # q => quizAnswers'[i] = quizAnswers[i]
           /\ \A i \in 1..Len(quizFeedback) :
                i # q => quizFeedback'[i] = quizFeedback[i]]_vars

\* the second question has just been answered incorrectly while the first one
\* keeps its correct answer
C30_Witness ==
  /\ lastOp.op = "handleAnswerSelection"
  /\ lastOp.guard
  /\ lastOp.q = 2
  /\ lastOp.arg = "b"
  /\ Len(quizAnswers) = 2
  /\ quizAnswers[1] = "a"
  /\ quizFeedback = <<"correct", "incorrect">>

\* C31: once quizAnswers[q] is set for the current course, quizAnswers[q] and
\* quizFeedback[q] do not change until the course is replaced or cleared,
\* whatever explanation requests settle in between; and in every reachable
\* state quizFeedback[q] is non-null exactly when quizAnswers[q] is non-null.
C31_AnswerAndFeedbackStable ==
  /\ [](\A q \in 1..MaxQuiz :
          /\ ArrGet(quizAnswers, q, UNDEF) = NULL
               <=> ArrGet(quizFeedback, q, UNDEF) = NULL
          /\ ArrGet(quizAnswers, q, UNDEF) = UNDEF
               <=> ArrGet(quizFeedback, q, UNDEF) = UNDEF)
  /\ [][\A q \in 1..MaxQuiz :
          (/\ course.k = "course"
           /\ course' = course
           /\ ArrGet(quizAnswers, q, UNDEF) \notin {NULL, UNDEF}) =>
            /\ ArrGet(quizAnswers', q, UNDEF) = ArrGet(quizAnswers, q, UNDEF)
            /\ ArrGet(quizFeedback', q, UNDEF) = ArrGet(quizFeedback, q, UNDEF)]_vars

\* an explanation request for an answered question has just settled and the
\* answer and its feedback are still there
C31_Witness ==
  /\ lastOp.op \in {"ExplanationResolved", "ExplanationRejected"}
  /\ course.k = "course"
  /\ ArrGet(quizAnswers, lastOp.q, UNDEF) = "b"
  /\ ArrGet(quizFeedback, lastOp.q, UNDEF) = "incorrect"

\* C32: in every reachable state in which a course is shown,
\* explanationLoading[q] is true only if quizFeedback[q] is 'incorrect' and an
\* explanation request for question q of the current course is outstanding.
C32_LoadingMeansOutstandingRequest ==
  course.k = "course" =>
    \A q \in 1..MaxQuiz :
      ArrGet(explanationLoading, q, UNDEF) = JTrue =>
        /\ ArrGet(quizFeedback, q, UNDEF) = "incorrect"
        /\ \E r \in explRequests : r.q = q /\ r.courseId = course.id

\* C33: a stashed install-prompt event is prompted at most once: after
\* handleInstallApp has called prompt() on it, no later get-app click calls
\* prompt() on the same event, also when the click arrives before the user's
\* choice has resolved.
C33_PromptedAtMostOnce ==
  \A id \in 1..Len(promptCalls) : promptCalls[id] <= 1

\* C34: isAppInstalled never goes from true back to false; after the
\* platform's appinstalled event isAppInstalled is true and the deferred
\* prompt is null; after a resolved install prompt the deferred prompt is null
\* whatever the outcome, and isAppInstalled is true exactly when the outcome
\* was 'accepted' or it was already true.
C34_InstalledIsMonotone ==
  [][/\ isAppInstalled => isAppInstalled'
     /\ pwaLast'.op = "appinstalled" =>
          /\ isAppInstalled'
          /\ deferredPrompt' = NoEvent
     /\ (pwaLast'.op = "userChoice" /\ choiceAwaited' # choiceAwaited) =>
          /\ deferredPrompt' = NoEvent
          /\ isAppInstalled' <=>
               (isAppInstalled \/ pwaLast'.outcome = "accepted")]_vars

\* the user has dismissed the prompt of a stashed event: nothing is held and
\* the app does not count as installed
C34_Witness ==
  /\ pwaLast = PwaOp("userChoice", "dismissed")
  /\ deferredPrompt = NoEvent
  /\ ~isAppInstalled
  /\ \E id \in 1..Len(promptCalls) : promptCalls[id] > 0

\* ------------------------------------------- properties: feedback storage keys
\* two sections give feedback on the same target
SameTarget(p, q) ==
  /\ p.type = q.type
  /\ p.courseTitle = q.courseTitle
  /\ p.type = "lesson" => p.lessonIndex = q.lessonIndex

\* the targets compared: titles of up to MaxTitleLen characters that hold the
\* separator and a digit, lesson indexes of one and two digits
MaxTitleLen == 2
MaxKeyIndex == 10
KeyTitles ==
  UNION {[1..n -> {"T", "-", "0"}] : n \in 0..MaxTitleLen}
KeyTargets ==
  {[type |-> "course", courseTitle |-> t, lessonIndex |-> 0] : t \in KeyTitles}
    \cup {[type |-> "lesson", courseTitle |-> t, lessonIndex |-> i] :
            t \in KeyTitles, i \in 0..MaxKeyIndex}

\* no two of the targets compared share a key
KeysDistinct ==
  \A p \in KeyTargets, q \in KeyTargets :
    localStorageKey(p) = localStorageKey(q) => SameTarget(p, q)

\* C35: feedback storage keys are injective in their target: a course-level
\* key never equals a lesson-level key, and two lesson-level keys are equal
\* only when both the course title and the lesson index are equal, so a record
\* saved for one target is never loaded for another.
C35_KeysInjective ==
  /\ KeysDistinct
  /\ \A p \in FeedbackProps :
       localStorageKey(p) = CurrentKey => SameTarget(p, fbProps)
  /\ (fbLast.op \in {"mount", "keyChange"} /\ Saved(CurrentKey) # NoRecord)
       => SameTarget(Saved(CurrentKey).by, fbProps)

\* the lesson section of course "T" is mounted and finds nothing, although
\* the course section of course "T-0" has saved a record
C35_Witness ==
  /\ fbLast.op = "mount"
  /\ fbProps = [type |-> "lesson", courseTitle |-> <<"T">>, lessonIndex |-> 0]
  /\ Saved(CurrentKey) = NoRecord
  /\ Saved(CourseKeyPrefix \o <<"T", "-", "0">>) # NoRecord
  /\ ~submitted

\* C36: submitting the same rating (1..5) and comment twice in a row for the
\* same key leaves the stored record and the submitted flag exactly as after
\* the first submission, and any record ever written by handleSubmit has a
\* rating in 1..5.
C36_SubmitIsIdempotent ==
  [][(FeedbackCall("handleSubmit") /\ rating # 0) =>
       /\ (/\ Saved(CurrentKey) # NoRecord
           /\ Saved(CurrentKey).rating = rating
           /\ Saved(CurrentKey).comment = comment)
            => /\ localStorage' = localStorage
               /\ submitted'
       /\ CurrentKey \in DOMAIN localStorage'
       /\ JsonParse(localStorage'[CurrentKey].s).ok
       /\ JsonParse(localStorage'[CurrentKey].s).rating \in 1..5]_vars

\* star, submit, edit, submit: the record submitted before was submitted again
\* unchanged, and both thank-you timers are still pending
C36_Witness ==
  /\ fbLast.op = "handleSubmit"
  /\ fbLast.rating \in Stars
  /\ ~fbLast.submitted
  /\ fbActions = 4
  /\ thankYouTimers = 2
  /\ submitted
  /\ Saved(CurrentKey) # NoRecord
  /\ Saved(CurrentKey).rating = rating

\* ------------------------------------------------- properties: image syntax
\* the markdown image with alt text "a" and url "u"
ImageText == <<"!", "[", "a", "]", "(", "u", ")">>

\* C37: markdownToPlainText removes image syntax: the input ![alt](url) yields
\* exactly the alt text, with no leftover !, brackets or url. Read on the
\* plain-text export of a course whose summary is one image.
C37_ImageYieldsAltText ==
  (/\ downloaded # NoDownload
   /\ downloaded.format = "plaintext"
   /\ exportCourse.summary = ImageText)
    => /\ Contains(downloaded.content,
                   <<"courseSummary", ":", "\n", "a", "\n", "\n">>)
       /\ \A c \in {"!", "[", "]", "(", ")", "u"} :
            ~Contains(downloaded.content, <<c>>)

====
